---- MODULE Spec2Model ----
(***************************************************************************)
(* reactord: the bridge from the PipeWire thread loop to the notification  *)
(* reconciler.  The consumer side (main.rs: run, handle_action) and the    *)
(* native side (pwloop.rs, utils.rs) are modelled as one state machine.    *)
(*                                                                         *)
(* Option<T> is a sequence of length at most one: None is <<>> and Some(x) *)
(* is <<x>>.  A volume is an integer number of hundredths (0.6 is 60).     *)
(***************************************************************************)
EXTENDS Integers, Sequences, FiniteSets, TLC

\* The ids of the proxies (the ids the actions carry) are 1..MaxId.
MaxId == 2

\* The native callbacks pass at most MaxEvents actions to blocking_send.
MaxEvents == 4

\* ListenerConfig.message_buffer_size, the capacity of the Action Channel.
\* The default configuration sets 5; the model runs with a smaller capacity.
message_buffer_size == 2

Ids == 1..MaxId

NONE == <<>>
Some(x) == <<x>>
IsSome(o) == o # <<>>
Unwrap(o) == o[1]

Range(f) == {f[x] : x \in DOMAIN f}

\* HashMap::insert / HashMap::remove on a map kept as a function.
MapInsert(m, k, v) == [x \in DOMAIN m \cup {k} |-> IF x = k THEN v ELSE m[x]]
MapRemove(m, k) == [x \in DOMAIN m \ {k} |-> m[x]]
EmptyMap == [x \in {} |-> 0]

(***************************************************************************)
(* state.rs                                                                *)
(***************************************************************************)

VolumeInfo(v, m, c) == [volume |-> v, mute |-> m, channel_volumes |-> c]

\* The VolumeInfo values fed to the reconciler: nothing present, a mute flag
\* alone (off, on), a master volume with the mute flag off (two levels), a
\* channel list alone.
VolumeInfos ==
    {VolumeInfo(NONE, NONE, <<>>),
     VolumeInfo(NONE, Some(FALSE), <<>>),
     VolumeInfo(NONE, Some(TRUE), <<>>),
     VolumeInfo(Some(80), Some(FALSE), <<>>),
     VolumeInfo(Some(60), Some(FALSE), <<>>),
     VolumeInfo(NONE, NONE, <<40>>)}

\* VolumeInfo equality: volume, mute and channel_volumes pairwise equal.
VolEq(a, b) ==
    /\ a.volume = b.volume
    /\ a.mute = b.mute
    /\ a.channel_volumes = b.channel_volumes

\* impl From<&str> for DeviceKind
DeviceKindFrom(value) ==
    CASE value = "Audio/Sink" -> "Sink"
      [] value = "Audio/Source" -> "Source"
      [] value = "Audio/Device" -> "Device"
      [] OTHER -> "Unknown"

\* Entry::get_label: label, else description, else name, else a placeholder.
get_label(e) ==
    IF IsSome(e.label) THEN Unwrap(e.label)
    ELSE IF IsSome(e.description) THEN Unwrap(e.description)
    ELSE IF IsSome(e.name) THEN Unwrap(e.name)
    ELSE "<unnamed>"

(***************************************************************************)
(* utils.rs: the object classifier                                         *)
(***************************************************************************)

\* DictRef::get
DictGet(props, key) == IF key \in DOMAIN props THEN Some(props[key]) ELSE NONE

\* Option::or_else
OrElse(a, b) == IF IsSome(a) THEN a ELSE b

\* v.parse::<u32>().ok() on the strings the model's dictionaries carry.
ParseU32(s) ==
    CASE s = "1" -> Some(1)
      [] s = "2" -> Some(2)
      [] OTHER -> NONE

AndThenParse(o) == IF IsSome(o) THEN ParseU32(Unwrap(o)) ELSE NONE

is_audio_node(props) ==
    /\ IsSome(props)
    /\ IsSome(DictGet(Unwrap(props), "media.class"))
    /\ Unwrap(DictGet(Unwrap(props), "media.class"))
         \in {"Audio/Sink", "Audio/Source", "Audio/Duplex", "Audio/Sink/Monitor"}

is_audio_device(props) ==
    /\ IsSome(props)
    /\ IsSome(DictGet(Unwrap(props), "device.api"))
    /\ Unwrap(DictGet(Unwrap(props), "device.api"))
         \in {"alsa", "bluez5", "jack", "pulse"}

KindOf(p) ==
    IF IsSome(DictGet(p, "media.class"))
    THEN DeviceKindFrom(Unwrap(DictGet(p, "media.class")))
    ELSE "Unknown"

\* parse_object: Some(Entry) for an audio node or an audio device, else None.
parse_object(o) ==
    IF o.props = NONE THEN NONE
    ELSE LET p == Unwrap(o.props) IN
      IF o.type = "Node" /\ is_audio_node(o.props) THEN
        Some([id |-> o.id,
              volume |-> NONE,
              is_node |-> TRUE,
              name |-> DictGet(p, "node.name"),
              device_id |-> AndThenParse(DictGet(p, "device.id")),
              label |-> OrElse(DictGet(p, "node.nick"), DictGet(p, "node.description")),
              description |-> DictGet(p, "node.description"),
              kind |-> KindOf(p)])
      ELSE IF o.type = "Device" /\ is_audio_device(o.props) THEN
        Some([id |-> o.id,
              volume |-> NONE,
              is_node |-> FALSE,
              name |-> DictGet(p, "device.name"),
              device_id |-> AndThenParse(DictGet(p, "device.id")),
              label |-> OrElse(DictGet(p, "device.description"), DictGet(p, "device.name")),
              description |-> DictGet(p, "device.description"),
              kind |-> KindOf(p)])
      ELSE NONE

\* The property dictionaries of the globals the server announces.
SinkProps ==
    ("media.class" :> "Audio/Sink") @@ ("node.name" :> "alsa_output")
      @@ ("node.description" :> "Headphones") @@ ("device.id" :> "1")
IgnoredProps ==
    ("media.class" :> "Audio/Sink") @@ ("node.name" :> "easyeffects_sink")
      @@ ("node.nick" :> "Easy Effects Sink")
VideoProps == ("media.class" :> "Video/Source") @@ ("node.name" :> "camera")
CardProps ==
    ("device.api" :> "alsa") @@ ("device.name" :> "alsa_card")
      @@ ("device.description" :> "Built-in Audio")
V4l2Props == ("device.api" :> "v4l2") @@ ("device.name" :> "v4l2_device")

GlobalObject(id, type, props) == [id |-> id, type |-> type, props |-> props]

\* The global id (o.id) of the object whose proxy has id pid: the two ids are
\* numbers of different spaces.
GlobalIdOf(pid) == 30 + pid

Globals(id) ==
    {GlobalObject(id, "Node", Some(SinkProps)),
     GlobalObject(id, "Node", Some(IgnoredProps)),
     GlobalObject(id, "Node", Some(VideoProps)),
     GlobalObject(id, "Node", NONE),
     GlobalObject(id, "Device", Some(CardProps)),
     GlobalObject(id, "Device", Some(V4l2Props)),
     GlobalObject(id, "Port", Some(SinkProps))}

(***************************************************************************)
(* The actions of the Action Channel                                       *)
(***************************************************************************)

EntryAdd(oid, entry) ==
    [type |-> "EntryAdd", id |-> oid, entry |-> Some(entry), vol |-> NONE]
VolumeChange(oid, vol) ==
    [type |-> "VolumeChange", id |-> oid, entry |-> NONE, vol |-> Some(vol)]
EntryRemove(oid) ==
    [type |-> "EntryRemove", id |-> oid, entry |-> NONE, vol |-> NONE]
Shutdown == [type |-> "Shutdown", id |-> 0, entry |-> NONE, vol |-> NONE]
NoMsg == [type |-> "None", id |-> 0, entry |-> NONE, vol |-> NONE]

VARIABLES
    devices,        \* State.devices: id -> Entry
    notifications,  \* State.notifications: id -> notification handle
    consumerPc,     \* run: "loop" in the select loop, "exited" after break
    cancelSent,     \* stop_tx.send(()) has been called
    lastMsg,        \* the action handle_action was given in the step that led
                    \* here (NoMsg when that step made no handle_action call)
    calls,          \* the collaborator calls that handle_action call made
    logs,           \* the tracing events that handle_action call emitted
    supPc,          \* the thread start_pw_thread spawns: its place in the closure
    loopRunning,    \* the PipeWire thread loop is started and not yet stopped
    loopPc,         \* the loop thread: "idle" or the blocking_send it is in
    pending,        \* the action that blocking_send is sending
    binding,        \* Some(is_node) of the proxy on_global_change has bound
    rmIdx,          \* remove_object: the index of the disposer being called
    serverObjs,     \* the ids of the objects that exist on the server
    listeners,      \* Subscriptions.listeners: id -> listeners
    objects,        \* Subscriptions.objects: id -> proxy
    disposers,      \* Subscriptions.disposers: id -> removal callbacks
    chan,           \* the actions queued in the Action Channel
    rxAlive,        \* the channel's receiver has not been dropped
    emitted,        \* every action a callback has passed to blocking_send
    delivered,      \* every action the consumer has received
    stopLog,        \* the steps the supervisor has taken after the cancellation
    ignore_list,    \* ListenerConfig.ignore_list
    regLog,         \* the call of a PWContext method made in the step that
                    \* led here, with the registry states it went through
    lastGlobal      \* the global the latest on_global_change call was given,
                    \* and whether registry.bind succeeds for it

consumerVars == <<devices, notifications, lastMsg, calls, logs>>
nativeVars ==
    <<supPc, loopRunning, loopPc, pending, binding, rmIdx, serverObjs,
      listeners, objects, disposers, emitted, stopLog, ignore_list, regLog,
      lastGlobal>>
vars ==
    <<devices, notifications, consumerPc, cancelSent, lastMsg, calls, logs,
      supPc, loopRunning, loopPc, pending, binding, rmIdx, serverObjs,
      listeners, objects, disposers, chan, rxAlive, emitted, delivered, stopLog,
      ignore_list, regLog, lastGlobal>>

(***************************************************************************)
(* main.rs: the State Reconciler                                           *)
(***************************************************************************)

\* f32::round followed by `as i32`, on a non-negative number of hundredths.
Round(h) == (h + 50) \div 100

\* build_volume_notification without the fallback to the first channel volume.
build_volume_notification_NoChannels(entry, vol) ==
    IF IsSome(vol.mute) /\ Unwrap(vol.mute) THEN
      Some([label |-> get_label(entry), muted |-> TRUE,
            icon |-> "audio-volume-muted-symbolic", value |-> NONE])
    ELSE IF IsSome(vol.volume) THEN
      Some([label |-> get_label(entry), muted |-> FALSE,
            icon |-> "audio-volume-high-symbolic",
            value |-> Some(Round(Unwrap(vol.volume)))])
    ELSE NONE

\* build_volume_notification: None when there is nothing to show.
build_volume_notification(entry, vol) ==
    LET val == IF IsSome(vol.volume) THEN vol.volume
               ELSE IF vol.channel_volumes = <<>> THEN NONE
               ELSE Some(vol.channel_volumes[1])
    IN IF IsSome(vol.mute) /\ Unwrap(vol.mute) THEN
         Some([label |-> get_label(entry), muted |-> TRUE,
               icon |-> "audio-volume-muted-symbolic", value |-> NONE])
       ELSE IF IsSome(val) THEN
         Some([label |-> get_label(entry), muted |-> FALSE,
               icon |-> "audio-volume-high-symbolic",
               value |-> Some(Round(Unwrap(val)))])
       ELSE NONE

\* The collaborator calls: show_volume_notification, update_volume_notification
\* and close_notification; ok is whether a show or update call succeeded.
ShowCall(oid, n, ok) ==
    [op |-> "show", id |-> oid, handle |-> NONE, note |-> Some(n), ok |-> ok]
UpdateCall(oid, h, n, ok) ==
    [op |-> "update", id |-> oid, handle |-> Some(h), note |-> Some(n), ok |-> ok]
CloseCall(oid, h) ==
    [op |-> "close", id |-> oid, handle |-> Some(h), note |-> NONE, ok |-> TRUE]

\* The handle a successful show returns: one that no held handle equals.
NewHandle(held) ==
    CHOOSE h \in 1..(Cardinality(held) + 1) :
        /\ h \notin held
        /\ \A g \in 1..(h - 1) : g \in held

\* The tracing events of handle_action and build_volume_notification.
LogEntryAdd == "EntryAdd"
LogFirst == "received volume info for first time, skip notification"
LogDuplicate == "volume didn't change, skip"
LogVolumeChange == "VolumeChange"
LogNoInfo == "can't send notification as no mute or volume info"
LogOrphan == "got VolumeChange event for orphan device/node"
LogEntryRemove == "EntryRemove"
LogBye == "bye!"

\* State::remove_entry: erases oid from both maps and hands back its handle.
remove_entry_devices(oid) == MapRemove(devices, oid)
remove_entry_notifications(oid) == MapRemove(notifications, oid)
remove_entry_result(oid) ==
    IF oid \in DOMAIN notifications THEN Some(notifications[oid]) ELSE NONE

\* The orders in which a set of ids can be visited (HashMap iteration order).
Orders(S) ==
    {q \in [1..Cardinality(S) -> S] : \A i, j \in DOMAIN q : i # j => q[i] # q[j]}

\* EntryAdd arm
HandleEntryAdd(oid, entry) ==
    /\ devices' = MapInsert(devices, oid, entry)
    /\ UNCHANGED notifications
    /\ calls' = <<>>
    /\ logs' = <<LogEntryAdd>>

\* `Some(e) if e.volume.is_none()`
IsFirstSnapshot_Never(e) == FALSE
IsFirstSnapshot(e) == e.volume = NONE

\* `if let Some(current) = e.volume.as_ref() && current == &vol`
IsDuplicate_Never(e, vol) == FALSE
IsDuplicate(e, vol) == IsSome(e.volume) /\ VolEq(Unwrap(e.volume), vol)

\* `e.volume = Some(vol)`
StoreVolume(oid, vol) == [devices EXCEPT ![oid].volume = Some(vol)]

\* VolumeChange, the `None` arm: no entry for oid.
VolumeChangeOrphan_Upsert(oid, vol) ==
    /\ devices' = MapInsert(devices, oid,
                            [id |-> oid, volume |-> Some(vol), is_node |-> TRUE,
                             name |-> NONE, device_id |-> NONE, label |-> NONE,
                             description |-> NONE, kind |-> "Unknown"])
    /\ UNCHANGED notifications
    /\ calls' = <<>>
    /\ logs' = <<LogOrphan>>
VolumeChangeOrphan(oid, vol) ==
    /\ UNCHANGED <<devices, notifications>>
    /\ calls' = <<>>
    /\ logs' = <<LogOrphan>>

\* VolumeChange, a changed volume; ok tells whether show or update succeeds.
VolumeChangeGenuine(oid, vol, ok) ==
    LET n == build_volume_notification(devices[oid], vol) IN
    IF n = NONE THEN
        /\ notifications' = MapRemove(notifications, oid)
        /\ calls' = IF oid \in DOMAIN notifications
                    THEN <<CloseCall(oid, notifications[oid])>>
                    ELSE <<>>
        /\ devices' = StoreVolume(oid, vol)
        /\ logs' = <<LogVolumeChange, LogNoInfo>>
    ELSE IF oid \in DOMAIN notifications THEN
        /\ calls' = <<UpdateCall(oid, notifications[oid], Unwrap(n), ok)>>
        /\ notifications' = IF ok THEN notifications
                            ELSE MapRemove(notifications, oid)
        /\ devices' = StoreVolume(oid, vol)
        /\ logs' = <<LogVolumeChange>>
    ELSE
        /\ calls' = <<ShowCall(oid, Unwrap(n), ok)>>
        /\ notifications' = IF ok
                            THEN MapInsert(notifications, oid,
                                           NewHandle(Range(notifications)))
                            ELSE notifications
        /\ devices' = StoreVolume(oid, vol)
        /\ logs' = <<LogVolumeChange>>

\* VolumeChange arm
HandleVolumeChange(oid, vol, ok) ==
    IF oid \notin DOMAIN devices THEN VolumeChangeOrphan(oid, vol)
    ELSE IF IsFirstSnapshot(devices[oid]) THEN
        /\ devices' = StoreVolume(oid, vol)
        /\ UNCHANGED notifications
        /\ calls' = <<>>
        /\ logs' = <<LogFirst>>
    ELSE IF IsDuplicate(devices[oid], vol) THEN
        /\ UNCHANGED <<devices, notifications>>
        /\ calls' = <<>>
        /\ logs' = <<LogDuplicate>>
    ELSE VolumeChangeGenuine(oid, vol, ok)

\* The EntryRemove arm with a remove_entry that leaves the handle in its map.
HandleEntryRemove_KeepHandle(oid) ==
    /\ calls' = IF oid \in DOMAIN notifications
                THEN <<CloseCall(oid, notifications[oid])>>
                ELSE <<>>
    /\ devices' = remove_entry_devices(oid)
    /\ UNCHANGED notifications
    /\ logs' = IF oid \in DOMAIN devices THEN <<LogEntryRemove>> ELSE <<LogOrphan>>

\* EntryRemove arm
HandleEntryRemove_NoClose(oid) ==
    /\ calls' = <<>>
    /\ devices' = remove_entry_devices(oid)
    /\ notifications' = remove_entry_notifications(oid)
    /\ logs' = IF oid \in DOMAIN devices THEN <<LogEntryRemove>> ELSE <<LogOrphan>>
HandleEntryRemove(oid) ==
    IF oid \in DOMAIN devices THEN
        /\ calls' = IF IsSome(remove_entry_result(oid))
                    THEN <<CloseCall(oid, Unwrap(remove_entry_result(oid)))>>
                    ELSE <<>>
        /\ devices' = remove_entry_devices(oid)
        /\ notifications' = remove_entry_notifications(oid)
        /\ logs' = <<LogEntryRemove>>
    ELSE
        /\ UNCHANGED <<devices, notifications>>
        /\ calls' = <<>>
        /\ logs' = <<LogOrphan>>

\* State::clear_entries: empties both maps and yields the handles, in the
\* map's iteration order.
clear_entries_result == Orders(DOMAIN notifications)

\* Shutdown arm: every handle clear_entries yields is closed.
HandleShutdown_CloseFirst ==
    /\ \E q \in clear_entries_result :
         calls' = [i \in DOMAIN q \cap {1} |-> CloseCall(q[i], notifications[q[i]])]
    /\ devices' = EmptyMap
    /\ notifications' = EmptyMap
    /\ logs' = <<LogBye>>
HandleShutdown ==
    /\ \E q \in clear_entries_result :
         calls' = [i \in DOMAIN q |-> CloseCall(q[i], notifications[q[i]])]
    /\ devices' = EmptyMap
    /\ notifications' = EmptyMap
    /\ logs' = <<LogBye>>

\* handle_action
handle_action(msg, ok) ==
    /\ lastMsg' = msg
    /\ CASE msg.type = "EntryAdd" -> HandleEntryAdd(msg.id, Unwrap(msg.entry))
         [] msg.type = "VolumeChange" ->
              HandleVolumeChange(msg.id, Unwrap(msg.vol), ok)
         [] msg.type = "EntryRemove" -> HandleEntryRemove(msg.id)
         [] msg.type = "Shutdown" -> HandleShutdown

\* A step in which handle_action is not called.
NoHandle ==
    /\ lastMsg' = NoMsg
    /\ calls' = <<>>
    /\ logs' = <<>>
    /\ UNCHANGED <<devices, notifications>>

(***************************************************************************)
(* main.rs: run.  Under Spec the receiver yields any action the channel    *)
(* can carry, in any order; under SpecSys (below) it yields what the       *)
(* native thread has queued.                                               *)
(***************************************************************************)

\* ListenerConfig::set_ignore_list: an empty list means no ignore-list.
set_ignore_list(list) == IF list = {} THEN NONE ELSE Some(list)

\* No PWContext method was called in the step.
NoCall ==
    [op |-> "none", id |-> 0, handler |-> "", ok |-> TRUE, invoked |-> <<>>,
     steps |-> <<>>]

\* The entry an EntryAdd carries, as parse_object builds it for an audio sink.
SinkEntry(oid) ==
    Unwrap(parse_object(GlobalObject(GlobalIdOf(oid), "Node", Some(SinkProps))))

\* The state after construction, but for the configured ignore-list.
InitState ==
    /\ devices = EmptyMap
    /\ notifications = EmptyMap
    /\ consumerPc = "loop"
    /\ cancelSent = FALSE
    /\ lastMsg = NoMsg
    /\ calls = <<>>
    /\ logs = <<>>
    /\ supPc = "init"
    /\ loopRunning = FALSE
    /\ loopPc = "idle"
    /\ pending = NoMsg
    /\ binding = NONE
    /\ rmIdx = 0
    /\ serverObjs = {}
    /\ listeners = EmptyMap
    /\ objects = EmptyMap
    /\ disposers = EmptyMap
    /\ chan = <<>>
    /\ rxAlive = TRUE
    /\ emitted = <<>>
    /\ delivered = <<>>
    /\ stopLog = <<>>
    /\ regLog = NoCall
    /\ lastGlobal = NONE

\* main: listen_cfg.set_ignore_list(vec!["easyeffects_sink"]).
Init ==
    /\ InitState
    /\ ignore_list = set_ignore_list({"easyeffects_sink"})

RecvEntryAdd ==
    /\ consumerPc = "loop"
    /\ \E oid \in Ids : handle_action(EntryAdd(oid, SinkEntry(oid)), TRUE)
    /\ UNCHANGED <<consumerPc, cancelSent, chan, rxAlive, delivered>>
    /\ UNCHANGED nativeVars

RecvVolumeChange ==
    /\ consumerPc = "loop"
    /\ \E oid \in Ids : \E v \in VolumeInfos : \E ok \in BOOLEAN :
         handle_action(VolumeChange(oid, v), ok)
    /\ UNCHANGED <<consumerPc, cancelSent, chan, rxAlive, delivered>>
    /\ UNCHANGED nativeVars

RecvEntryRemove ==
    /\ consumerPc = "loop"
    /\ \E oid \in Ids : handle_action(EntryRemove(oid), TRUE)
    /\ UNCHANGED <<consumerPc, cancelSent, chan, rxAlive, delivered>>
    /\ UNCHANGED nativeVars

RecvShutdown ==
    /\ consumerPc = "loop"
    /\ handle_action(Shutdown, TRUE)
    /\ UNCHANGED <<consumerPc, cancelSent, chan, rxAlive, delivered>>
    /\ UNCHANGED nativeVars

\* The ctrl_c branch of the select: send the cancellation, then break.
CtrlC ==
    /\ consumerPc = "loop"
    /\ cancelSent' = TRUE
    /\ consumerPc' = "exited"
    /\ NoHandle
    /\ UNCHANGED <<chan, rxAlive, delivered>>
    /\ UNCHANGED nativeVars

Next ==
    \/ RecvEntryAdd
    \/ RecvVolumeChange
    \/ RecvEntryRemove
    \/ RecvShutdown
    \/ CtrlC

Spec == Init /\ [][Next]_vars

(***************************************************************************)
(* utils.rs: volume_from_pod and the Subscription Registry                 *)
(***************************************************************************)

\* A property of a Props object: whether its key is present, whether its
\* value reads as the type volume_from_pod asks for, and the value.
PodProp(present, readable, value) ==
    [present |-> present, readable |-> readable, value |-> value]

Pod(is_object, volume, mute, channelVolumes) ==
    [is_object |-> is_object, volume |-> volume, mute |-> mute,
     channelVolumes |-> channelVolumes]

\* The params a param callback is given: none; a pod that is no object; an
\* object with no recognized key; master volume 1.0 with a mute flag and one
\* channel; a master volume alone; a volume key whose value is not a float.
Params ==
    {NONE,
     Some(Pod(FALSE, PodProp(FALSE, FALSE, 0), PodProp(FALSE, FALSE, FALSE),
              PodProp(FALSE, FALSE, <<>>))),
     Some(Pod(TRUE, PodProp(FALSE, FALSE, 0), PodProp(FALSE, FALSE, FALSE),
              PodProp(FALSE, FALSE, <<>>))),
     Some(Pod(TRUE, PodProp(TRUE, TRUE, 100), PodProp(TRUE, TRUE, FALSE),
              PodProp(TRUE, TRUE, <<40>>))),
     Some(Pod(TRUE, PodProp(TRUE, TRUE, 60), PodProp(FALSE, FALSE, FALSE),
              PodProp(FALSE, FALSE, <<>>))),
     Some(Pod(TRUE, PodProp(TRUE, FALSE, 0), PodProp(FALSE, FALSE, FALSE),
              PodProp(FALSE, FALSE, <<>>)))}

ParamTypes == {"Props", "Route"}

\* volume_from_pod
volume_from_pod(param) ==
    IF ~param.is_object THEN NONE
    ELSE LET found == \/ param.volume.present
                      \/ param.mute.present
                      \/ param.channelVolumes.present /\ param.channelVolumes.readable
             volume == IF param.volume.present /\ param.volume.readable
                       THEN Some(param.volume.value) ELSE NONE
             mute == IF param.mute.present /\ param.mute.readable
                     THEN Some(param.mute.value) ELSE NONE
             channel_volumes ==
                 IF param.channelVolumes.present /\ param.channelVolumes.readable
                 THEN param.channelVolumes.value ELSE <<>>
         IN IF ~found THEN NONE
            ELSE IF channel_volumes # <<>> /\ (volume = Some(100) \/ volume = NONE)
            THEN Some(VolumeInfo(Some(channel_volumes[1]), mute, channel_volumes))
            ELSE Some(VolumeInfo(volume, mute, channel_volumes))

\* Subscriptions::add_subscription
add_subscription(ls, oid, listener) ==
    MapInsert(ls, oid, Append(IF oid \in DOMAIN ls THEN ls[oid] ELSE <<>>, listener))

\* on_object_remove without the test for a registered object.
on_object_remove_Unchecked(ds, objs, oid, listener) ==
    MapInsert(ds, oid, Append(IF oid \in DOMAIN ds THEN ds[oid] ELSE <<>>, listener))

\* Subscriptions::on_object_remove: the disposers after the call; the call is
\* an error, and changes nothing, when oid has no registered object.
on_object_remove(ds, objs, oid, listener) ==
    IF oid \in DOMAIN objs
    THEN MapInsert(ds, oid, Append(IF oid \in DOMAIN ds THEN ds[oid] ELSE <<>>, listener))
    ELSE ds

\* Subscriptions::add_object
add_object(objs, oid, obj) ==
    IF oid \in DOMAIN objs THEN objs ELSE MapInsert(objs, oid, obj)

\* The disposers remove_object calls for oid.
DisposersOf(oid) == IF oid \in DOMAIN disposers THEN disposers[oid] ELSE <<>>

\* remove_object that drops the proxy and the disposers and keeps the
\* listeners.
RemoveObjectFinish_KeepListeners(oid) ==
    /\ disposers' = MapRemove(disposers, oid)
    /\ objects' = MapRemove(objects, oid)
    /\ UNCHANGED listeners

\* Subscriptions::remove_object, after its disposers have been called.
RemoveObjectFinish(oid) ==
    /\ disposers' = MapRemove(disposers, oid)
    /\ objects' = MapRemove(objects, oid)
    /\ listeners' = MapRemove(listeners, oid)

\* clear that keeps the removal callbacks.
SubscriptionsClear_ListenersOnly ==
    /\ listeners' = EmptyMap
    /\ UNCHANGED <<objects, disposers>>

\* Subscriptions::clear
SubscriptionsClear ==
    /\ disposers' = EmptyMap
    /\ listeners' = EmptyMap
    /\ UNCHANGED objects

(***************************************************************************)
(* pwloop.rs: the Action Channel and the callbacks of the thread loop      *)
(***************************************************************************)

\* What a step that calls no PWContext method leaves alone.
NoRegCall == UNCHANGED <<ignore_list, regLog, lastGlobal>>

is_entry_ignored_LabelFirst(e) ==
    IF ignore_list = NONE THEN FALSE
    ELSE IF IsSome(OrElse(e.label, e.name))
    THEN Unwrap(OrElse(e.label, e.name)) \in Unwrap(ignore_list)
    ELSE FALSE

\* ListenerConfig::is_entry_ignored
is_entry_ignored(e) ==
    IF ignore_list = NONE THEN FALSE
    ELSE IF IsSome(OrElse(e.name, e.label))
    THEN Unwrap(OrElse(e.name, e.label)) \in Unwrap(ignore_list)
    ELSE FALSE

\* blocking_send returns: a slot is free, or the receiver is gone (an error).
SendReady_NoBackpressure == TRUE
SendReady == Len(chan) < message_buffer_size \/ ~rxAlive

\* The queue after blocking_send has returned.
Enqueue(q, msg) == IF rxAlive THEN Append(q, msg) ELSE q

\* The id of a newly bound proxy: the lowest one no live proxy has.
FreeProxyIds == Ids \ (DOMAIN objects)
NewProxyId == CHOOSE p \in FreeProxyIds : \A q \in FreeProxyIds : p <= q

\* A callback runs on the loop thread, one at a time, while the loop runs.
LoopIdle == loopRunning /\ loopPc = "idle"

\* What a step of the native side leaves alone on the consumer side.
ConsumerIdle ==
    /\ NoHandle
    /\ UNCHANGED <<consumerPc, cancelSent, rxAlive, delivered>>

\* The registry's global callback: on_global_change up to its
\* blocking_send(EntryAdd).  bindOk tells whether registry.bind succeeds.
OnGlobalChange_SubscribeFirst(o, bindOk) ==
    /\ LoopIdle
    /\ IF \/ parse_object(o) = NONE
          \/ is_entry_ignored(Unwrap(parse_object(o)))
          \/ ~bindOk
       THEN UNCHANGED <<serverObjs, listeners, objects, disposers>>
       ELSE /\ serverObjs' = serverObjs \cup {NewProxyId}
            /\ listeners' =
                 add_subscription(add_subscription(listeners, NewProxyId, "param"),
                                  NewProxyId, "removed")
            /\ objects' = add_object(objects, NewProxyId, [is_node |-> o.type = "Node"])
            /\ disposers' = on_object_remove(disposers, objects', NewProxyId,
                                             "EntryRemove")
    /\ ConsumerIdle
    /\ UNCHANGED <<ignore_list, regLog>>
    /\ UNCHANGED <<supPc, loopRunning, rmIdx, loopPc, pending, binding, emitted,
                   chan, stopLog>>

\* on_global_change(o) returns without a proxy: o is no audio node or
\* device, it is on the ignore-list, or registry.bind fails.
SkipsGlobal(o, bindOk) ==
    \/ parse_object(o) = NONE
    \/ is_entry_ignored(Unwrap(parse_object(o)))
    \/ ~bindOk

\* on_global_change(o) up to its blocking_send(EntryAdd).
OnGlobalChange(o, bindOk) ==
    /\ LoopIdle
    /\ IF SkipsGlobal(o, bindOk)
       THEN UNCHANGED <<loopPc, pending, binding, serverObjs, emitted>>
       ELSE /\ Len(emitted) < MaxEvents
            /\ loopPc' = "sendAdd"
            /\ pending' = EntryAdd(NewProxyId, Unwrap(parse_object(o)))
            /\ emitted' = Append(emitted, pending')
            /\ binding' = Some(o.type = "Node")
            /\ serverObjs' = serverObjs \cup {NewProxyId}
    /\ ConsumerIdle
    /\ UNCHANGED <<ignore_list, regLog>>
    /\ UNCHANGED <<supPc, loopRunning, rmIdx, listeners, objects, disposers, chan, stopLog>>

\* The registry's global callback.  A call that skips its object changes
\* nothing here, where the call itself is not recorded: the calls taken are
\* the ones that bind.
GlobalAppeared ==
    /\ LoopIdle
    /\ FreeProxyIds # {}
    /\ \E o \in Globals(GlobalIdOf(NewProxyId)) : \E bindOk \in BOOLEAN :
         /\ ~SkipsGlobal(o, bindOk)
         /\ OnGlobalChange(o, bindOk)
    /\ UNCHANGED lastGlobal

\* on_global_change after blocking_send(EntryAdd): subscribe_node or
\* subscribe_device registers the param listener, the removed listener, the
\* proxy and the disposer.
CompleteBind ==
    /\ loopPc = "sendAdd"
    /\ SendReady
    /\ chan' = Enqueue(chan, pending)
    /\ LET oid == pending.id
           ls == add_subscription(add_subscription(listeners, oid, "param"),
                                  oid, "removed")
           objs == add_object(objects, oid, [is_node |-> Unwrap(binding)])
       IN /\ listeners' = ls
          /\ objects' = objs
          /\ disposers' = on_object_remove(disposers, objs, oid, "EntryRemove")
    /\ loopPc' = "idle"
    /\ pending' = NoMsg
    /\ binding' = NONE
    /\ ConsumerIdle
    /\ NoRegCall
    /\ UNCHANGED <<supPc, loopRunning, rmIdx, serverObjs, emitted, stopLog>>

\* The param callback returns without sending: the param is no Props, it is
\* absent, or volume_from_pod finds no volume in it.
SkipsParam(param_type, param) ==
    \/ param_type # "Props"
    \/ param = NONE
    \/ volume_from_pod(Unwrap(param)) = NONE

\* The param listener of a node or device, up to blocking_send(VolumeChange).
\* A call that sends nothing changes nothing: the calls taken are the ones
\* that send.
ParamChanged ==
    /\ LoopIdle
    /\ \E oid \in DOMAIN listeners \cap serverObjs :
       \E param_type \in ParamTypes : \E param \in Params :
         /\ "param" \in Range(listeners[oid])
         /\ ~SkipsParam(param_type, param)
         /\ Len(emitted) < MaxEvents
         /\ loopPc' = "sendVol"
         /\ pending' = VolumeChange(oid, Unwrap(volume_from_pod(Unwrap(param))))
         /\ emitted' = Append(emitted, pending')
    /\ ConsumerIdle
    /\ NoRegCall
    /\ UNCHANGED <<supPc, loopRunning, binding, rmIdx, serverObjs, listeners,
                   objects, disposers, chan, stopLog>>

\* blocking_send(VolumeChange) returns and the param callback ends.
CompleteVolumeSend ==
    /\ loopPc = "sendVol"
    /\ SendReady
    /\ chan' = Enqueue(chan, pending)
    /\ loopPc' = "idle"
    /\ pending' = NoMsg
    /\ ConsumerIdle
    /\ NoRegCall
    /\ UNCHANGED <<supPc, loopRunning, binding, rmIdx, serverObjs, listeners,
                   objects, disposers, emitted, stopLog>>

\* The server destroys an object; the removed listener of its proxy, when it
\* is still registered, runs remove_object up to the first disposer's
\* blocking_send(EntryRemove).
ObjectRemoved ==
    /\ LoopIdle
    /\ \E oid \in serverObjs :
         /\ serverObjs' = serverObjs \ {oid}
         /\ IF oid \in DOMAIN listeners /\ "removed" \in Range(listeners[oid])
            THEN IF DisposersOf(oid) = <<>>
                 THEN /\ RemoveObjectFinish(oid)
                      /\ UNCHANGED <<loopPc, pending, rmIdx, emitted>>
                 ELSE /\ Len(emitted) < MaxEvents
                      /\ loopPc' = "sendRm"
                      /\ rmIdx' = 1
                      /\ pending' = EntryRemove(oid)
                      /\ emitted' = Append(emitted, pending')
                      /\ UNCHANGED <<listeners, objects, disposers>>
            ELSE UNCHANGED <<loopPc, pending, rmIdx, emitted, listeners, objects,
                             disposers>>
    /\ ConsumerIdle
    /\ NoRegCall
    /\ UNCHANGED <<supPc, loopRunning, binding, chan, stopLog>>

\* A disposer's blocking_send(EntryRemove) returns: remove_object calls the
\* next disposer or, after the last, drops the disposers, the proxy and the
\* listeners of the object.
CompleteRemove ==
    /\ loopPc = "sendRm"
    /\ SendReady
    /\ chan' = Enqueue(chan, pending)
    /\ IF rmIdx < Len(DisposersOf(pending.id))
       THEN /\ Len(emitted) < MaxEvents
            /\ rmIdx' = rmIdx + 1
            /\ emitted' = Append(emitted, pending)
            /\ UNCHANGED <<loopPc, pending, listeners, objects, disposers>>
       ELSE /\ RemoveObjectFinish(pending.id)
            /\ loopPc' = "idle"
            /\ pending' = NoMsg
            /\ rmIdx' = 0
            /\ UNCHANGED emitted
    /\ ConsumerIdle
    /\ NoRegCall
    /\ UNCHANGED <<supPc, loopRunning, binding, serverObjs, stopLog>>

(***************************************************************************)
(* pwloop.rs, utils.rs: the thread start_pw_thread spawns                  *)
(***************************************************************************)

\* What a step of the supervisor leaves alone on the loop thread.
LoopUntouched == UNCHANGED <<loopPc, pending, binding, rmIdx, serverObjs, emitted>>

\* A removed listener holds a clone of the Rc of the Subscriptions it is
\* stored in (register_object): while one is stored, the Subscriptions keeps
\* itself alive.
SubsCycle == \E oid \in DOMAIN listeners : "removed" \in Range(listeners[oid])

\* The thread ends and drops its PWContext: the Subscriptions is dropped with
\* all it holds, unless a stored removed listener keeps it alive.
DropContext ==
    IF SubsCycle
    THEN UNCHANGED <<listeners, objects, disposers>>
    ELSE /\ listeners' = EmptyMap
         /\ objects' = EmptyMap
         /\ disposers' = EmptyMap

\* The thread has returned or unwound: its own Sender and the clone in the
\* registry's global callback are dropped.
ThreadEnded == supPc \in {"terminated", "failed"}

\* Some Sender of the Action Channel is alive: the thread's own one, or a
\* clone owned by a stored param listener or removal callback.
SendersAlive ==
    \/ ~ThreadEnded
    \/ \E oid \in DOMAIN listeners : "param" \in Range(listeners[oid])
    \/ \E oid \in DOMAIN disposers : disposers[oid] # <<>>

\* What start_pw_thread returns to run: Ok(rx), as soon as the thread is
\* spawned and whatever the thread does afterwards.
start_pw_thread_result == "Ok"

\* pw::init, PWContext::new_shared and the registry listener succeed, and
\* PWContext::begin starts the thread loop and waits for the cancellation.
StartOk ==
    /\ supPc = "init"
    /\ supPc' = "waiting"
    /\ loopRunning' = TRUE
    /\ ConsumerIdle
    /\ NoRegCall
    /\ LoopUntouched
    /\ UNCHANGED <<listeners, objects, disposers, chan, stopLog>>

\* PWContext::new_shared fails: the thread returns.
StartFail ==
    /\ supPc = "init"
    /\ supPc' = "failed"
    /\ ConsumerIdle
    /\ NoRegCall
    /\ LoopUntouched
    /\ UNCHANGED <<loopRunning, listeners, objects, disposers, chan, stopLog>>

\* cancel_token.blocking_recv returns.
RecvCancel ==
    /\ supPc = "waiting"
    /\ cancelSent
    /\ supPc' = "clear"
    /\ ConsumerIdle
    /\ NoRegCall
    /\ LoopUntouched
    /\ UNCHANGED <<loopRunning, listeners, objects, disposers, chan, stopLog>>

\* PWContext::begin: self.subs.borrow_mut().clear()
Clear ==
    /\ supPc = "clear"
    /\ SubscriptionsClear
    /\ stopLog' = Append(stopLog, "clear")
    /\ supPc' = "stop"
    /\ ConsumerIdle
    /\ NoRegCall
    /\ LoopUntouched
    /\ UNCHANGED <<loopRunning, chan>>

\* The same borrow_mut while the loop thread holds the RefCell's borrow inside
\* remove_object: borrow_mut finds the cell borrowed and the thread panics.
ClearPanics ==
    /\ supPc = "clear"
    /\ loopPc = "sendRm"
    /\ supPc' = "panicked"
    /\ ConsumerIdle
    /\ NoRegCall
    /\ LoopUntouched
    /\ UNCHANGED <<loopRunning, listeners, objects, disposers, chan, stopLog>>

\* The panicking thread drops its PWContext, which stops the thread loop once
\* the callback in progress has returned.
Unwind ==
    /\ supPc = "panicked"
    /\ loopPc = "idle"
    /\ loopRunning' = FALSE
    /\ supPc' = "terminated"
    /\ DropContext
    /\ ConsumerIdle
    /\ NoRegCall
    /\ LoopUntouched
    /\ UNCHANGED <<chan, stopLog>>

\* A stop that neither waits for the callback in progress nor ends the loop.
Stop_NoJoin ==
    /\ supPc = "stop"
    /\ UNCHANGED loopRunning
    /\ stopLog' = Append(stopLog, "stop")
    /\ supPc' = "shutdown"
    /\ ConsumerIdle
    /\ NoRegCall
    /\ LoopUntouched
    /\ UNCHANGED <<listeners, objects, disposers, chan>>

\* PWContext::begin: self.thread_loop.stop(), which joins the loop thread.
Stop ==
    /\ supPc = "stop"
    /\ loopPc = "idle"
    /\ loopRunning' = FALSE
    /\ stopLog' = Append(stopLog, "stop")
    /\ supPc' = "shutdown"
    /\ ConsumerIdle
    /\ NoRegCall
    /\ LoopUntouched
    /\ UNCHANGED <<listeners, objects, disposers, chan>>

\* tx.blocking_send(ActionType::Shutdown); then the thread ends.
SendShutdown ==
    /\ supPc = "shutdown"
    /\ SendReady
    /\ chan' = Enqueue(chan, Shutdown)
    /\ stopLog' = Append(stopLog, "shutdown")
    /\ supPc' = "terminated"
    /\ DropContext
    /\ ConsumerIdle
    /\ NoRegCall
    /\ LoopUntouched
    /\ UNCHANGED loopRunning

(***************************************************************************)
(* main.rs: run, receiving from the Action Channel                         *)
(***************************************************************************)

\* The h.recv() branch of the select.
ConsumerRecv ==
    /\ consumerPc = "loop"
    /\ chan # <<>>
    /\ \E ok \in BOOLEAN : handle_action(Head(chan), ok)
    /\ chan' = Tail(chan)
    /\ delivered' = Append(delivered, Head(chan))
    /\ UNCHANGED <<consumerPc, cancelSent, rxAlive>>
    /\ UNCHANGED nativeVars

\* run returns and the receiver stays alive with what is queued.
DropReceiver_KeepsReceiver ==
    /\ consumerPc = "exited"
    /\ consumerPc' = "done"
    /\ UNCHANGED <<rxAlive, chan>>
    /\ NoHandle
    /\ UNCHANGED <<cancelSent, delivered>>
    /\ UNCHANGED nativeVars

\* run returns: the receiver is dropped with whatever is still queued.
DropReceiver ==
    /\ consumerPc = "exited"
    /\ consumerPc' = "done"
    /\ rxAlive' = FALSE
    /\ chan' = <<>>
    /\ NoHandle
    /\ UNCHANGED <<cancelSent, delivered>>
    /\ UNCHANGED nativeVars

NextSys ==
    \/ StartOk
    \/ StartFail
    \/ RecvCancel
    \/ Clear
    \/ ClearPanics
    \/ Unwind
    \/ Stop
    \/ SendShutdown
    \/ GlobalAppeared
    \/ CompleteBind
    \/ ParamChanged
    \/ CompleteVolumeSend
    \/ ObjectRemoved
    \/ CompleteRemove
    \/ ConsumerRecv
    \/ CtrlC
    \/ DropReceiver

SpecSys == Init /\ [][NextSys]_vars

\* A step of the thread start_pw_thread spawns, which is at one place of its
\* code at a time.
SupervisorStep ==
    \/ StartOk
    \/ StartFail
    \/ RecvCancel
    \/ Clear
    \/ ClearPanics
    \/ Unwind
    \/ Stop
    \/ SendShutdown

\* The blocking_send of the callback in progress returns.
SendReturns ==
    \/ CompleteBind
    \/ CompleteVolumeSend
    \/ CompleteRemove

\* What the threads do when they can.  The spawned thread runs: it starts or
\* fails, returns from blocking_recv once the signal is sent, and goes through
\* clear, stop and the Shutdown send, or unwinds.  A blocking_send returns
\* once a slot is free or the receiver is gone.  run, having left its loop,
\* returns and drops the receiver.  What the server announces and whether the
\* operator interrupts is left open.
FairSys ==
    /\ WF_vars(SupervisorStep)
    /\ WF_vars(SendReturns)
    /\ WF_vars(DropReceiver)

SpecSysLive == Init /\ [][NextSys]_vars /\ FairSys

(***************************************************************************)
(* utils.rs: the Subscription Registry driven through the methods of       *)
(* PWContext, called in any order (SpecReg)                                *)
(***************************************************************************)

\* An id holds at most MaxDisposers removal callbacks.
MaxDisposers == 2

\* The removal callbacks handed to removed_listener.
Handlers == {"h1", "h2"}

\* A state of the registry.
Snap(ls, objs, ds) == [listeners |-> ls, objects |-> objs, disposers |-> ds]

\* The call of a PWContext method: its name and arguments, whether it
\* returned Ok, the removal callbacks it invoked, in order, and the registry
\* states from the one it was called in to the one it returned in.
RegCall(op, oid, handler, ok, invoked, steps) ==
    [op |-> op, id |-> oid, handler |-> handler, ok |-> ok,
     invoked |-> invoked, steps |-> steps]

\* Subscriptions::on_object_remove returns Ok.
on_object_remove_ok(objs, oid) == oid \in DOMAIN objs

\* What a call of a PWContext method leaves alone.
RegUntouched ==
    /\ UNCHANGED consumerVars
    /\ UNCHANGED <<consumerPc, cancelSent, supPc, loopRunning, loopPc, pending,
                   binding, rmIdx, serverObjs, chan, rxAlive, emitted,
                   delivered, stopLog, ignore_list, lastGlobal>>

\* node_listener_local / device_listener_local for a new proxy: the param
\* listener is added, then register_object adds the removed listener and
\* the proxy.
RegListenerLocal ==
    /\ \E oid \in Ids \ DOMAIN objects : \E is_node \in BOOLEAN :
         LET l1 == add_subscription(listeners, oid, "param")
             l2 == add_subscription(l1, oid, "removed")
             o3 == add_object(objects, oid, [is_node |-> is_node])
         IN /\ listeners' = l2
            /\ objects' = o3
            /\ regLog' = RegCall("listener_local", oid, "", TRUE, <<>>,
                                 <<Snap(listeners, objects, disposers),
                                   Snap(l1, objects, disposers),
                                   Snap(l2, objects, disposers),
                                   Snap(l2, o3, disposers)>>)
    /\ UNCHANGED disposers
    /\ RegUntouched

\* removed_listener(oid, handler), for any oid.
RegRemovedListener ==
    /\ \E oid \in Ids : \E handler \in Handlers :
         /\ Len(DisposersOf(oid)) < MaxDisposers
         /\ disposers' = on_object_remove(disposers, objects, oid, handler)
         /\ regLog' = RegCall("removed_listener", oid, handler,
                              on_object_remove_ok(objects, oid), <<>>,
                              <<Snap(listeners, objects, disposers),
                                Snap(listeners, objects, disposers')>>)
    /\ UNCHANGED <<listeners, objects>>
    /\ RegUntouched

\* The removed listener of oid fires: remove_object(oid) calls the disposers,
\* then removes the disposers, the proxy and the listeners of oid.
RegRemoved ==
    /\ \E oid \in DOMAIN listeners :
         /\ "removed" \in Range(listeners[oid])
         /\ RemoveObjectFinish(oid)
         /\ regLog' = RegCall("remove_object", oid, "", TRUE, DisposersOf(oid),
                              <<Snap(listeners, objects, disposers),
                                Snap(listeners, objects, disposers'),
                                Snap(listeners, objects', disposers'),
                                Snap(listeners', objects', disposers')>>)
    /\ RegUntouched

\* PWContext::begin's self.subs.borrow_mut().clear()
RegClear ==
    /\ SubscriptionsClear
    /\ regLog' = RegCall("clear", 0, "", TRUE, <<>>,
                         <<Snap(listeners, objects, disposers),
                           Snap(listeners', objects', disposers')>>)
    /\ RegUntouched

NextReg ==
    \/ RegListenerLocal
    \/ RegRemovedListener
    \/ RegRemoved
    \/ RegClear

SpecReg == Init /\ [][NextReg]_vars

(***************************************************************************)
(* pwloop.rs: on_global_change under every configuration of the            *)
(* ignore-list, each call recorded in lastGlobal                           *)
(***************************************************************************)

MaxAnnounced == 3

\* The lists a ListenerConfig is given: none, the one of main, and one that
\* holds the description of a sink.
IgnoreLists == {{}, {"easyeffects_sink"}, {"Headphones"}}

\* A sink that has a description and no node.name.
NamelessProps ==
    ("media.class" :> "Audio/Sink") @@ ("node.description" :> "Headphones")

FilterGlobals(id) ==
    Globals(id) \cup {GlobalObject(id, "Node", Some(NamelessProps))}

\* The number of calls of on_global_change so far.
Announced == IF lastGlobal = NONE THEN 0 ELSE Unwrap(lastGlobal).n

InitFilter ==
    /\ InitState
    /\ \E list \in IgnoreLists : ignore_list = set_ignore_list(list)

\* The registry's global callback, for any object the server announces.
AnnounceGlobal ==
    /\ LoopIdle
    /\ FreeProxyIds # {}
    /\ Announced < MaxAnnounced
    /\ \E o \in FilterGlobals(GlobalIdOf(NewProxyId)) : \E bindOk \in BOOLEAN :
         /\ OnGlobalChange(o, bindOk)
         /\ lastGlobal' = Some([o |-> o, bindOk |-> bindOk, n |-> Announced + 1])

\* The loop thread alone, from its start to a full channel: what it binds and
\* sends does not depend on what the consumer does with it.
NextFilter ==
    \/ StartOk
    \/ AnnounceGlobal
    \/ CompleteBind
    \/ ParamChanged
    \/ CompleteVolumeSend
    \/ ObjectRemoved
    \/ CompleteRemove

SpecFilter == InitFilter /\ [][NextFilter]_vars

(***************************************************************************)
(* main.rs: run fed the actions of objects that come, change and go, the   *)
(* actions it has handled kept in delivered                                *)
(***************************************************************************)

MaxFed == 6

\* Two volumes that differ, each of which a notification can be built for.
ReuseVolumes ==
    {VolumeInfo(Some(80), Some(FALSE), <<>>), VolumeInfo(Some(60), Some(FALSE), <<>>)}

\* The last EntryAdd or EntryRemove of oid in h, 0 when there is none.
LastLifecycle(h, oid) ==
    LET S == {i \in DOMAIN h : h[i].id = oid /\ h[i].type \in {"EntryAdd", "EntryRemove"}}
    IN IF S = {} THEN 0 ELSE CHOOSE i \in S : \A j \in S : j <= i

\* The producer has added an object with proxy id oid and not removed it.
IsOpen(h, oid) ==
    LastLifecycle(h, oid) # 0 /\ h[LastLifecycle(h, oid)].type = "EntryAdd"

\* h.recv() yields msg and handle_action handles it.
Feed(msg, ok) ==
    /\ consumerPc = "loop"
    /\ Len(delivered) < MaxFed
    /\ handle_action(msg, ok)
    /\ delivered' = Append(delivered, msg)
    /\ UNCHANGED <<consumerPc, cancelSent, chan, rxAlive>>
    /\ UNCHANGED nativeVars

FeedEntryAdd ==
    \E oid \in Ids :
        /\ ~IsOpen(delivered, oid)
        /\ Feed(EntryAdd(oid, SinkEntry(oid)), TRUE)

FeedVolumeChange ==
    \E oid \in Ids : \E v \in ReuseVolumes : \E ok \in BOOLEAN :
        /\ IsOpen(delivered, oid)
        /\ Feed(VolumeChange(oid, v), ok)

FeedEntryRemove ==
    \E oid \in Ids :
        /\ IsOpen(delivered, oid)
        /\ Feed(EntryRemove(oid), TRUE)

NextReuse ==
    \/ FeedEntryAdd
    \/ FeedVolumeChange
    \/ FeedEntryRemove

SpecReuse == Init /\ [][NextReuse]_vars

(***************************************************************************)
(* Properties of the State Reconciler (checked under Spec)                 *)
(***************************************************************************)

\* The step handles a VolumeChange; the id and the volume it carries.
HandlesVolumeChange == lastMsg'.type = "VolumeChange"
HandledId == lastMsg'.id
HandledVol == Unwrap(lastMsg'.vol)

\* The step handles a VolumeChange for a live entry whose stored volume is
\* Some(old) with old different from the volume the action carries.
GenuineChange ==
    /\ HandlesVolumeChange
    /\ HandledId \in DOMAIN devices
    /\ IsSome(devices[HandledId].volume)
    /\ ~VolEq(Unwrap(devices[HandledId].volume), HandledVol)

\* The calls of a kind among a sequence of calls.
CallsOf(cs, ops) == {i \in DOMAIN cs : cs[i].op \in ops}

\* A notification can be built for v: the mute flag is on, or a master volume
\* or a channel volume is present.
Showable(v) ==
    \/ IsSome(v.mute) /\ Unwrap(v.mute)
    \/ IsSome(v.volume)
    \/ v.channel_volumes # <<>>

\* v carries a mute flag (on or off) or a derivable volume.
CarriesInfo(v) ==
    \/ IsSome(v.mute)
    \/ IsSome(v.volume)
    \/ v.channel_volumes # <<>>

\* C1: Deduplication. Handling VolumeChange(id, vol) for a live entry whose
\* stored volume equals vol makes no collaborator call and leaves the entries
\* map and the notification-handle map unchanged.
C1_Dedup ==
    [][(/\ HandlesVolumeChange
        /\ HandledId \in DOMAIN devices
        /\ IsSome(devices[HandledId].volume)
        /\ VolEq(Unwrap(devices[HandledId].volume), HandledVol))
         => (/\ calls' = <<>>
             /\ devices' = devices
             /\ notifications' = notifications)]_vars

\* A duplicate VolumeChange was skipped for an entry that holds a handle.
C1_Witness ==
    /\ lastMsg.type = "VolumeChange"
    /\ logs = <<LogDuplicate>>
    /\ calls = <<>>
    /\ lastMsg.id \in DOMAIN notifications
    /\ devices[lastMsg.id].volume = lastMsg.vol

\* The first VolumeChange of a fresh entry is stored and makes no call.
FirstSnapshotStored ==
    (/\ HandlesVolumeChange
     /\ HandledId \in DOMAIN devices
     /\ devices[HandledId].volume = NONE)
        => (/\ devices' = [devices EXCEPT ![HandledId].volume = Some(HandledVol)]
            /\ calls' = <<>>
            /\ notifications' = notifications)

\* The step handles the second VolumeChange of a fresh entry, right after its
\* first one, and carries a volume different from the first one's.
SecondChange ==
    /\ lastMsg.type = "VolumeChange"
    /\ logs = <<LogFirst>>
    /\ HandlesVolumeChange
    /\ HandledId = lastMsg.id
    /\ ~VolEq(Unwrap(lastMsg.vol), HandledVol)

C4_Unclassifiable ==
    [][GenuineChange
         => IF CarriesInfo(HandledVol)
            THEN /\ CallsOf(calls', {"show", "update"}) # {}
                 /\ CallsOf(calls', {"close"}) = {}
            ELSE /\ CallsOf(calls', {"show", "update"}) = {}
                 /\ HandledId \notin DOMAIN notifications'
                 /\ HandledId \in DOMAIN notifications
                      => calls' = <<CloseCall(HandledId,
                                              notifications[HandledId])>>]_vars

\* The step handles an EntryRemove.
HandlesEntryRemove == lastMsg'.type = "EntryRemove"

\* C5: EntryRemove(id) for a live entry closes the outstanding handle of id,
\* if any, and erases id from both maps; EntryRemove(id) applied a second
\* time changes no state and makes no collaborator call.
C5_EntryRemove ==
    [][/\ (HandlesEntryRemove /\ HandledId \in DOMAIN devices)
            => (/\ calls' = IF HandledId \in DOMAIN notifications
                            THEN <<CloseCall(HandledId, notifications[HandledId])>>
                            ELSE <<>>
                /\ devices' = MapRemove(devices, HandledId)
                /\ notifications' = MapRemove(notifications, HandledId))
       /\ (HandlesEntryRemove /\ lastMsg = lastMsg')
            => (/\ calls' = <<>>
                /\ devices' = devices
                /\ notifications' = notifications)]_vars

\* EntryRemove closed the handle of a live entry and erased the entry, while
\* another entry stays live.
C5_Witness ==
    /\ lastMsg.type = "EntryRemove"
    /\ logs = <<LogEntryRemove>>
    /\ Len(calls) = 1
    /\ calls[1].op = "close"
    /\ lastMsg.id \notin DOMAIN devices
    /\ lastMsg.id \notin DOMAIN notifications
    /\ DOMAIN notifications # {}

\* C6: Orphan handling. For an id with no live entry, handling
\* VolumeChange(id, v) or EntryRemove(id) leaves both maps unchanged and makes
\* no collaborator call, and the consumer stays in its receive loop.
C6_Orphan ==
    [][(/\ HandlesEntryRemove \/ HandlesVolumeChange
        /\ HandledId \notin DOMAIN devices)
         => (/\ devices' = devices
             /\ notifications' = notifications
             /\ calls' = <<>>
             /\ consumerPc' = "loop")]_vars

\* An orphan VolumeChange was handled while another id has an entry and a
\* handle.
C6_Witness ==
    /\ lastMsg.type = "VolumeChange"
    /\ logs = <<LogOrphan>>
    /\ lastMsg.id \notin DOMAIN devices
    /\ DOMAIN notifications # {}
    /\ consumerPc = "loop"

\* C7: Shutdown teardown. Handling Shutdown closes every handle outstanding
\* at that moment exactly once and makes no other call, and leaves both maps
\* empty.
C7_Shutdown ==
    [][lastMsg' = Shutdown
       => (/\ devices' = EmptyMap
           /\ notifications' = EmptyMap
           /\ Len(calls') = Cardinality(DOMAIN notifications)
           /\ \A oid \in DOMAIN notifications :
                Cardinality({i \in DOMAIN calls' :
                    calls'[i] = CloseCall(oid, notifications[oid])}) = 1)]_vars

\* Shutdown was handled with two handles outstanding.
C7_Witness ==
    /\ lastMsg = Shutdown
    /\ Len(calls) = 2
    /\ calls[1].op = "close"
    /\ calls[2].op = "close"
    /\ calls[1].handle # calls[2].handle
    /\ devices = EmptyMap
    /\ notifications = EmptyMap

\* C8: Receiving Shutdown terminates the consumer loop: the step after the
\* one that handled Shutdown handles no action and leaves the receive loop.
C8_ShutdownTerminates ==
    [][lastMsg = Shutdown
       => (lastMsg' = NoMsg /\ consumerPc' = "exited")]_vars


(***************************************************************************)
(* Properties of the Action Channel and of the stop sequence               *)
(***************************************************************************)

\* The actions of a sequence that the loop thread emitted.
NonShutdown(q) == SelectSeq(q, LAMBDA m : m.type # "Shutdown")

\* The action a callback of the loop thread is blocked sending.
InFlight == IF loopPc \in {"sendAdd", "sendVol", "sendRm"} THEN <<pending>> ELSE <<>>

\* C9: the Action Channel never holds more than its capacity, and while the
\* receiver is alive the actions the native thread emitted are, in emission
\* order and each exactly once, the ones delivered to the consumer, then the
\* ones queued, then the one the blocked producer still holds: none is
\* dropped, duplicated or reordered, within an id or across ids.
C9_ChannelOrder ==
    /\ Len(chan) <= message_buffer_size
    /\ rxAlive =>
         emitted = NonShutdown(delivered) \o NonShutdown(chan) \o InFlight

\* C9's case: the queue is full, the producer is blocked on a further action,
\* the receiver is alive and has taken a delivery, and two ids are involved.
C9_Witness ==
    /\ rxAlive
    /\ Len(chan) = message_buffer_size
    /\ InFlight # <<>>
    /\ delivered # <<>>
    /\ \E i, j \in DOMAIN emitted : emitted[i].id # emitted[j].id

\* The order the claim gives to the three steps of the stop sequence.
StopOrder == <<"stop", "clear", "shutdown">>

\* C10: after the cancellation signal the supervisor stops the native loop,
\* then clears the Subscription Registry, then enqueues Shutdown; clear()
\* never runs while the native loop is still running.
C10_StopOrder ==
    /\ \A i \in DOMAIN stopLog : stopLog[i] = StopOrder[i]
    /\ "clear" \in Range(stopLog) => ~loopRunning


\* C11: once the native thread has ended, every Sender of the Action Channel
\* has been dropped, the clones owned by listener and removal closures
\* included, so that the consumer sees the channel closed.
C11_EndOfStream == supPc = "terminated" => ~SendersAlive


\* C12: when the start of the native side fails, the caller of the supervisor
\* is given a startup error, the native loop is never started and no action,
\* not even Shutdown, is ever placed on the Action Channel.
C12_StartupFailure ==
    supPc = "failed"
    => (/\ start_pw_thread_result = "Err"
        /\ ~loopRunning
        /\ emitted = <<>>
        /\ chan = <<>>
        /\ stopLog = <<>>)


(***************************************************************************)
(* Properties of the Subscription Registry (checked under SpecReg)         *)
(***************************************************************************)

\* The registry state a call was made in, and the one it returned in.
StateBefore == regLog.steps[1]
StateAfter == regLog.steps[Len(regLog.steps)]

\* The removal callbacks of oid in a registry state.
CallbacksIn(st, oid) == IF oid \in DOMAIN st.disposers THEN st.disposers[oid] ELSE <<>>

\* C13: remove(id) invokes every removal callback registered for id, each
\* once and in registration order, then drops the listeners of id and only
\* then the proxy of id: in no state it goes through is the proxy of id gone
\* while a listener of id is still held.
C13_RemovalOrder ==
    regLog.op = "remove_object"
    => (/\ regLog.invoked = CallbacksIn(StateBefore, regLog.id)
        /\ \A i \in DOMAIN regLog.steps :
             regLog.id \in DOMAIN regLog.steps[i].listeners
             => regLog.id \in DOMAIN regLog.steps[i].objects
        /\ regLog.id \notin DOMAIN listeners
        /\ regLog.id \notin DOMAIN objects
        /\ regLog.id \notin DOMAIN disposers)

\* C14: add_listener stores nothing for an id that has no registered proxy,
\* so in every registry state that the registration of an object goes
\* through, each id with a listener bucket has a registered proxy.
C14_AddListener ==
    regLog.op = "listener_local"
    => \A i \in DOMAIN regLog.steps :
         DOMAIN regLog.steps[i].listeners \subseteq DOMAIN regLog.steps[i].objects

\* C15: on_remove(id, callback) returns an error and leaves the registry
\* unchanged when id has no registered proxy, and appends the callback after
\* the ones registered before when it has one; in every state, the ones a
\* call goes through included, each id with a removal-callback list has a
\* registered proxy.
C15_OnRemove ==
    /\ DOMAIN disposers \subseteq DOMAIN objects
    /\ \A i \in DOMAIN regLog.steps :
         DOMAIN regLog.steps[i].disposers \subseteq DOMAIN regLog.steps[i].objects
    /\ regLog.op = "removed_listener"
       => (/\ StateAfter = Snap(listeners, objects, disposers)
           /\ listeners = StateBefore.listeners
           /\ objects = StateBefore.objects
           /\ IF regLog.id \in DOMAIN StateBefore.objects
              THEN /\ regLog.ok
                   /\ disposers =
                        MapInsert(StateBefore.disposers, regLog.id,
                                  Append(CallbacksIn(StateBefore, regLog.id),
                                         regLog.handler))
              ELSE /\ ~regLog.ok
                   /\ disposers = StateBefore.disposers)

\* on_remove failed for an id with no proxy while another id holds two
\* different callbacks, appended one after the other.
C15_Witness ==
    /\ regLog.op = "removed_listener"
    /\ ~regLog.ok
    /\ regLog.id \notin DOMAIN objects
    /\ \E oid \in DOMAIN disposers : disposers[oid] = <<"h1", "h2">>

\* C16: clear() empties the listener buckets and the removal-callback lists
\* of every id and invokes no removal callback, so that it causes no
\* EntryRemove to be emitted.
C16_Clear ==
    regLog.op = "clear"
    => (/\ listeners = EmptyMap
        /\ disposers = EmptyMap
        /\ regLog.invoked = <<>>)

\* clear() ran on a registry that held the listeners of two ids and two
\* removal callbacks of one of them.
C16_Witness ==
    /\ regLog.op = "clear"
    /\ Cardinality(DOMAIN StateBefore.listeners) = 2
    /\ \E oid \in DOMAIN StateBefore.disposers :
         Len(StateBefore.disposers[oid]) = 2
    /\ listeners = EmptyMap
    /\ disposers = EmptyMap


(***************************************************************************)
(* Further properties of the composed system and of the reconciler         *)
(***************************************************************************)

\* C17: every mutating operation of the registry runs on one thread, so that
\* no two of them overlap: the clear() issued after the cancellation never
\* runs while a callback of the native loop is inside remove(id) or inside
\* the binding of an object.
C17_Exclusive ==
    [][(supPc = "clear" /\ supPc' # "clear")
       => loopPc \notin {"sendAdd", "sendRm"}]_vars

\* The configured ignore-list, empty when none is set.
ConfiguredList == IF ignore_list = NONE THEN {} ELSE Unwrap(ignore_list)

\* The entry is on the ignore-list by its name or, when it has no name, by
\* its label.
Listed(e) ==
    IF e.name # NONE THEN Unwrap(e.name) \in ConfiguredList
    ELSE e.label # NONE /\ Unwrap(e.label) \in ConfiguredList

\* The object given to the latest call of on_global_change, and its entry.
AnnouncedObject == Unwrap(lastGlobal').o
AnnouncedEntry == Unwrap(parse_object(AnnouncedObject))

\* C18: a call of on_global_change for an accepted object whose name, or
\* whose label when it has no name, is on the ignore-list binds nothing,
\* leaves the registry as it was and places nothing on the channel, so no
\* EntryAdd ever emitted carries a listed entry (and with no proxy there is
\* no VolumeChange or EntryRemove of it); an accepted object that is not
\* listed, which is every accepted object when the list is empty, is bound
\* and its EntryAdd is emitted when the bind succeeds.
C18_IgnoreList ==
    [][/\ (Announced' # Announced /\ parse_object(AnnouncedObject) # NONE) =>
          /\ Listed(AnnouncedEntry) =>
                UNCHANGED <<binding, serverObjs, objects, listeners, disposers,
                            emitted, pending, chan, loopPc>>
          /\ (~Listed(AnnouncedEntry) /\ Unwrap(lastGlobal').bindOk) =>
                /\ binding' # NONE
                /\ loopPc' = "sendAdd"
                /\ emitted' = Append(emitted, EntryAdd(NewProxyId, AnnouncedEntry))
          /\ ConfiguredList = {} => ~Listed(AnnouncedEntry)
       /\ \A i \in DOMAIN emitted' :
            emitted'[i].type = "EntryAdd" => ~Listed(Unwrap(emitted'[i].entry))]_vars

\* A sink without a name whose label is on the list was announced and
\* skipped while another object is registered.
C18_Witness ==
    /\ lastGlobal # NONE
    /\ parse_object(Unwrap(lastGlobal).o) # NONE
    /\ Unwrap(parse_object(Unwrap(lastGlobal).o)).name = NONE
    /\ Listed(Unwrap(parse_object(Unwrap(lastGlobal).o)))
    /\ DOMAIN objects # {}
    /\ loopPc = "idle"
    /\ emitted # <<>>

\* C19: for a genuine change, whether the show, update or close call succeeds
\* or fails, the new volume is stored on the entry, and a handle the id
\* already has is not lost because a call failed: it stays in the handle map
\* whenever a notification can be built for the change.
C19_Bookkeeping ==
    [][GenuineChange
       => (/\ devices'[HandledId].volume = Some(HandledVol)
           /\ (HandledId \in DOMAIN notifications /\ Showable(HandledVol))
                => HandledId \in DOMAIN notifications')]_vars

\* The EntryAdd that opens the life of the object action j of q belongs to:
\* an EntryAdd of the same id before j, with no EntryRemove of that id
\* between the two.
OpenedBefore(q, j) ==
    \E i \in 1..(j - 1) :
        /\ q[i].type = "EntryAdd"
        /\ q[i].id = q[j].id
        /\ \A k \in (i + 1)..(j - 1) :
             ~(q[k].type = "EntryRemove" /\ q[k].id = q[j].id)

\* C20: EntryAdd(id, entry) is emitted before the listeners of the object are
\* subscribed, so that every VolumeChange(id) and the EntryRemove(id) of an
\* object come after its EntryAdd(id) among the actions emitted, of which the
\* actions that went onto the Action Channel are the first ones, in the same
\* order.
C20_BindOrder ==
    /\ \A oid \in DOMAIN listeners :
         \E i \in DOMAIN emitted :
             emitted[i].type = "EntryAdd" /\ emitted[i].id = oid
    /\ loopPc = "sendAdd" => pending.id \notin DOMAIN listeners
    /\ \A j \in DOMAIN emitted :
         emitted[j].type \in {"VolumeChange", "EntryRemove"}
         => OpenedBefore(emitted, j)
    /\ rxAlive =>
         NonShutdown(delivered \o chan) =
             SubSeq(emitted, 1, Len(NonShutdown(delivered \o chan)))

\* An object was added, changed its volume and was removed, and the id was
\* given to a second object, all of it on the way to a live consumer.
C20_Witness ==
    /\ rxAlive
    /\ Len(emitted) = 4
    /\ emitted[1].type = "EntryAdd"
    /\ emitted[2].type = "VolumeChange"
    /\ emitted[3].type = "EntryRemove"
    /\ emitted[4].type = "EntryAdd"
    /\ emitted[4].id = emitted[1].id
    /\ delivered # <<>>
    /\ chan # <<>>

(***************************************************************************)
(* Properties of the param callbacks and of shutdown                       *)
(***************************************************************************)

\* The VolumeInfo carries a master volume, a mute flag or a channel volume.
HasVolumeField(vol) ==
    vol.volume # NONE \/ vol.mute # NONE \/ vol.channel_volumes # <<>>

\* C21: every VolumeChange a param callback emits carries a VolumeInfo with
\* at least one of volume, mute and channel_volumes present; a payload whose
\* recognized key holds a value that cannot be read yields no VolumeChange
\* with all three absent.
C21_NonEmptyVolume ==
    \A i \in DOMAIN emitted :
        emitted[i].type = "VolumeChange" => HasVolumeField(Unwrap(emitted[i].vol))

\* The action handled last, its id, and the EntryAdd or EntryRemove of that
\* id handled before it.
LastFed == delivered[Len(delivered)]
FedBefore == SubSeq(delivered, 1, Len(delivered) - 1)
Reused(oid) ==
    \E i \in DOMAIN FedBefore : FedBefore[i] = EntryRemove(oid)

\* C22: when EntryAdd(id, e2) is handled after an EntryRemove(id), the entry
\* of id is e2 with no stored volume and id holds no notification handle;
\* the VolumeChange(id, v) handled next for id is a first snapshot, whatever
\* the volume of the earlier object was: v is stored, no presentation call
\* is made and id still holds no handle.
C22_IdReuse ==
    (delivered # <<>> /\ Reused(LastFed.id)) =>
        /\ LastFed.type = "EntryAdd" =>
             /\ devices[LastFed.id] = Unwrap(LastFed.entry)
             /\ devices[LastFed.id].volume = NONE
             /\ LastFed.id \notin DOMAIN notifications
        /\ (/\ LastFed.type = "VolumeChange"
            /\ LastLifecycle(FedBefore, LastFed.id) # 0
            /\ \A i \in DOMAIN FedBefore :
                 (i >= LastLifecycle(FedBefore, LastFed.id) /\ FedBefore[i].id = LastFed.id)
                 => FedBefore[i].type = "EntryAdd") =>
             /\ devices[LastFed.id].volume = LastFed.vol
             /\ calls = <<>>
             /\ logs = <<LogFirst>>
             /\ LastFed.id \notin DOMAIN notifications

\* An object had a volume shown in a notification and was removed; its id was
\* given to a second object, whose first volume differs from the last one of
\* the first.
C22_Witness ==
    /\ Len(delivered) = 6
    /\ delivered[1].type = "EntryAdd"
    /\ delivered[2].type = "VolumeChange"
    /\ delivered[3].type = "VolumeChange"
    /\ delivered[3].vol # delivered[2].vol
    /\ delivered[4] = EntryRemove(delivered[1].id)
    /\ delivered[5].type = "EntryAdd"
    /\ delivered[6].type = "VolumeChange"
    /\ delivered[6].vol # delivered[3].vol
    /\ \A i \in 1..6 : delivered[i].id = delivered[1].id
    /\ calls = <<>>

\* The life of the object with proxy id oid has ended: the last EntryAdd or
\* EntryRemove emitted for oid is an EntryRemove, and its removal callback
\* has returned.
RemovalDone(oid) ==
    /\ LastLifecycle(emitted, oid) # 0
    /\ emitted[LastLifecycle(emitted, oid)].type = "EntryRemove"
    /\ ~(loopPc = "sendRm" /\ pending.id = oid)

\* C23: no VolumeChange(id) is emitted between the EntryRemove(id) of an
\* object and the next EntryAdd(id), and once remove(id) has returned the
\* registry holds no listener, no removal callback and no proxy for id.
C23_NoEventAfterRemoval ==
    /\ \A i \in DOMAIN emitted : \A j \in DOMAIN emitted :
         (/\ i < j
          /\ emitted[i].type = "EntryRemove"
          /\ emitted[j].type = "VolumeChange"
          /\ emitted[j].id = emitted[i].id)
         => \E k \in (i + 1)..(j - 1) :
                emitted[k].type = "EntryAdd" /\ emitted[k].id = emitted[i].id
    /\ \A oid \in Ids :
         RemovalDone(oid) =>
             /\ oid \notin DOMAIN listeners
             /\ oid \notin DOMAIN disposers
             /\ oid \notin DOMAIN objects

\* An object changed its volume and was removed while a second object is
\* still registered with its listeners.
C23_Witness ==
    /\ loopPc = "idle"
    /\ \E oid \in Ids :
         /\ RemovalDone(oid)
         /\ \E i \in DOMAIN emitted :
              emitted[i].type = "VolumeChange" /\ emitted[i].id = oid
         /\ emitted[Len(emitted)] = EntryRemove(oid)
    /\ \E other \in DOMAIN listeners : other \in DOMAIN objects
    /\ chan # <<>>

\* The actions that went onto the Action Channel, in the order they did.
Enqueued == delivered \o chan

\* C24: the native thread enqueues Shutdown at most once and enqueues no
\* EntryAdd, VolumeChange or EntryRemove after it: a Shutdown on the Action
\* Channel is the last action that went onto it, and once it is sent the
\* loop has stopped with no callback in progress.
C24_ShutdownFinal ==
    /\ \A i \in DOMAIN Enqueued : Enqueued[i] = Shutdown => i = Len(Enqueued)
    /\ Cardinality({i \in DOMAIN stopLog : stopLog[i] = "shutdown"}) <= 1
    /\ "shutdown" \in Range(stopLog) =>
         (~loopRunning /\ loopPc = "idle" /\ supPc = "terminated")

\* Shutdown is queued behind the actions of a callback that ran after the
\* cancellation signal was received, the consumer having taken none of them.
C24_Witness ==
    /\ rxAlive
    /\ delivered = <<>>
    /\ Len(chan) >= 2
    /\ chan[Len(chan)] = Shutdown
    /\ stopLog = <<"clear", "stop", "shutdown">>
    /\ DOMAIN listeners # {}

\* C25: whenever the consumer has left its loop, every notification handle it
\* obtained has been closed and the handle map is empty; after it has sent
\* the cancellation signal it leaves the loop only once it has handled the
\* Shutdown action.
C25_CleanExit ==
    /\ [](consumerPc # "loop" => notifications = EmptyMap)
    /\ [][(consumerPc = "loop" /\ consumerPc' # "loop") => lastMsg = Shutdown]_vars

\* C26: once the cancellation signal is sent, the native thread eventually
\* ends, also when the Action Channel is full at that moment and a callback
\* is blocked sending on it: the supervisor and the consumer never wait on
\* each other forever.
C26_ShutdownLiveness == cancelSent ~> ThreadEnded

\* The cancellation signal is sent while the channel is full, a callback is
\* blocked sending on it and the supervisor has not yet seen the signal.
C26_Witness ==
    /\ cancelSent
    /\ rxAlive
    /\ Len(chan) = message_buffer_size
    /\ InFlight # <<>>
    /\ supPc = "waiting"

====
